---- MODULE Spec2Model ----
(***************************************************************************)
(* Model of mastodon-profile-scanner.py: the two paginated collectors      *)
(* (get_all_posts, get_followers_or_following_direct), the incremental     *)
(* journal of get_profile_info (posts.json, followers.json,                *)
(* following.json) and the orchestration of get_profile_info.              *)
(*                                                                         *)
(* Records are represented by their numeric id.  A file is a record        *)
(* [state, data]: state "absent" (no such file), "json" (a readable JSON   *)
(* array, data its elements) or "corrupt" (truncated by a write that did   *)
(* not complete; json.load raises on it).                                  *)
(***************************************************************************)
EXTENDS Integers, Sequences, FiniteSets, TLC

VARIABLES
    pc,             \* position of get_profile_info
    result,         \* "running", "ok" (dict returned), "none" (None returned), "killed"
    src,            \* the remote source served to the running collector
    all_posts,      \* get_all_posts: all_posts
    max_id,         \* get_all_posts: max_id (0 models None)
    items,          \* get_followers_or_following_direct: items
    params,         \* get_followers_or_following_direct: params (0 models {"limit": 80})
    response,       \* get_followers_or_following_direct: response ([status |-> 0] = unbound)
    type_list,      \* get_followers_or_following_direct: type_list
    slept,          \* seconds*TicksPerSecond slept since the last request was issued
    log,            \* requests issued by the running collector, with their outcome
    last_batch,     \* the last non-empty page the source served
    faults,         \* non-page answers the source may still give in this run
    statuses,       \* get_profile_info: statuses
    status_list,    \* get_profile_info: status_list
    followers_data, \* get_profile_info: followers_data
    followers,      \* get_profile_info: followers
    following_data, \* get_profile_info: following_data
    following,      \* get_profile_info: following
    i,              \* loop index of the running processing loop (0-based, as in the code)
    profile_file,   \* profile_info.json
    posts_file,     \* posts.json
    followers_file, \* followers.json
    following_file, \* following.json
    flushes,        \* outcome of every save_data_to_file call on a list file, in order
    profile_arg,    \* get_profile_info: profile_arg, a sequence of characters
    username,       \* get_profile_info: username
    instance,       \* get_profile_info: instance
    output_dir,     \* the output directory: [made |-> FALSE] until os.makedirs ran
    new_posts,      \* get_all_posts: new_posts, the raw posts of the batch being enriched
    calls,          \* API calls issued besides the page requests, in order
    ratelimit,      \* mastodon.ratelimit_remaining / ratelimit_limit / ratelimit_reset
    rate_limit_msg, \* both collectors: rate_limit_msg, the outcome of the last check
    page_order,     \* the order in which the instance lists the posts of a page
    previous        \* the posts.json an earlier run left in the output directory

vars == <<pc, result, src, all_posts, max_id, items, params, response, type_list,
          slept, log, last_batch, faults, statuses, status_list, followers_data,
          followers, following_data, following, i, profile_file, posts_file,
          followers_file, following_file, flushes, profile_arg, username, instance,
          output_dir, new_posts, calls, ratelimit, rate_limit_msg, page_order,
          previous>>

argVars == <<profile_arg, username, instance, output_dir>>
enrichVars == <<new_posts, calls>>
envVars == <<ratelimit, page_order, previous>>

collectorVars == <<src, all_posts, max_id, items, params, response, type_list,
                   slept, log, last_batch, faults, rate_limit_msg>>
journalVars == <<statuses, status_list, followers_data, followers, following_data,
                 following, i, posts_file, followers_file, following_file, flushes>>

----------------------------------------------------------------------------
(* Bounds of the model *)
MaxN == 3           \* a source holds at most MaxN items, ids 1..n
MaxP == 3           \* page sizes 1..MaxP
MaxFaults == 2      \* non-page answers (rate limit, error, repeated page) of a collector run
MaxJobFaults == 1   \* the same, of a whole-job run
MaxD == 2           \* rate-limit wait durations 1..MaxD seconds
MaxJobN == 2        \* whole-job runs: a source holds at most MaxJobN items
MaxWriteFaults == 1 \* save_data_to_file calls of a run that do not complete
MaxPosts == 61      \* journal runs: length of statuses
MaxAccounts == 101  \* journal runs: length of followers_data / following_data
MaxArgLen == 3      \* longest profile argument, in characters
MaxActors == 1      \* most accounts a reblogged-by / favourited-by listing returns
MaxRemaining == 2   \* rate-limit check alone: ratelimit_remaining is 0..MaxRemaining
MaxLimit == 21      \* rate-limit check alone: ratelimit_limit is 0..MaxLimit
MaxTime == 3        \* rate-limit check alone: reset time and clock, in ticks
ExhaustedUntil == 2 \* collections with a used-up window: ticks until it is reset

(* Program constants *)
posts_batch_size == 20
accounts_batch_size == 100
TicksPerSecond == 2     \* time.sleep(0.5) is one tick
DefaultRetryAfter == 60

----------------------------------------------------------------------------
(* Sequences helpers *)
Range(s) == {s[k] : k \in 1..Len(s)}

NoDuplicates(s) == \A a, b \in 1..Len(s) : s[a] = s[b] => a = b

Last(s) == s[Len(s)]

\* s[-n:] of Python
LastN(s, n) == IF Len(s) <= n THEN s ELSE SubSeq(s, Len(s) - n + 1, Len(s))

\* <<hi, hi-1, ..., lo>>
Descending(hi, lo) == [k \in 1..(IF hi >= lo THEN hi - lo + 1 ELSE 0) |-> hi + 1 - k]

\* <<lo, lo+1, ..., hi>>
Ascending(lo, hi) == [k \in 1..(IF hi >= lo THEN hi - lo + 1 ELSE 0) |-> lo + k - 1]

Min(a, b) == IF a <= b THEN a ELSE b
Max(a, b) == IF a >= b THEN a ELSE b

----------------------------------------------------------------------------
(* Files *)
Absent == [state |-> "absent", data |-> <<>>]
Corrupt == [state |-> "corrupt", data |-> <<>>]
Json(d) == [state |-> "json", data |-> d]

WriteFaults == Cardinality({k \in DOMAIN flushes : flushes[k].outcome # "ok"})

WriteOutcomes ==
    IF WriteFaults < MaxWriteFaults THEN {"ok", "openfail", "partial", "killed"}
    ELSE {"ok"}

\* save_data_to_file(data, filepath): open(filepath, "w") truncates the file, then
\* json.dump writes it.  "openfail": open raises, the file is untouched.  "partial":
\* json.dump raises after the truncation.  "killed": the process ends during the dump.
SaveBug_NoWrite(file, data, outcome) == file
save_data_to_file(file, data, outcome) ==
    CASE outcome = "ok" -> Json(data)
      [] outcome = "openfail" -> file
      [] OTHER -> Corrupt

----------------------------------------------------------------------------
(* The remote source.  It holds the items with ids 1..src.n and serves pages of *)
(* src.p items.  Statuses are served newest first (highest id first) below the   *)
(* max_id cursor; followers/following are served in pages addressed by the       *)
(* parameters of the "next" link (the offset of the page).                       *)
Sources ==
    {s \in [n : 0..MaxN, p : 1..MaxP, counter : 0..(MaxN + 1), last_next : BOOLEAN] :
        s.counter \in {s.n - 1, s.n, s.n + 1}}

\* statuses_count is only the total of the progress bar (line 298)
PostsSources == {s \in Sources : s.counter = s.n /\ ~s.last_next}

\* the sources of whole-job runs
JobSources == {s \in PostsSources : s.n <= MaxJobN /\ s.p <= MaxJobN}

StatusesPage(s, cursor) ==
    LET hi == IF cursor = 0 THEN s.n ELSE Min(s.n, cursor - 1)
        lo == Max(1, hi - s.p + 1)
    IN  Descending(hi, lo)

\* the page as the instance lists it
Reverse(s) == [k \in 1..Len(s) |-> s[Len(s) + 1 - k]]
Served(page) == IF page_order = "newest_first" THEN page ELSE Reverse(page)

\* a page in which the instance lists its first item twice
Doubled(page) == <<page[1]>> \o page

AccountsPage(s, offset) == Ascending(offset + 1, Min(offset + s.p, s.n))

\* a non-final page carries a "next" link; the final one may or may not
HasNextLink(s, offset) ==
    IF offset + s.p < s.n THEN TRUE ELSE (offset < s.n /\ s.last_next)

NextLinkParams(s, offset) == offset + s.p

\* the time since the running collection began, in ticks: what was slept before
\* each request, and since the last one
RECURSIVE SumWaited(_)
SumWaited(l) == IF l = <<>> THEN 0 ELSE Head(l).waited + SumWaited(Tail(l))

Clock == SumWaited(log) + slept

\* None
None == 0 - 1

NoRateLimit == [remaining |-> None, limit |-> None, reset |-> 0]

\* lines 12-24, monitor_rate_limit: "advisory" for the message, "none" for None,
\* "raised" when the division of line 18 raises ZeroDivisionError. The values are
\* integers, so remaining / limit < 0.1 is 10 * remaining < limit.
monitor_rate_limit(remaining, limit, reset, now) ==
    IF remaining # None /\ limit # None
    THEN IF limit = 0 THEN "raised"
         ELSE IF 10 * remaining < limit /\ reset - now > 0 THEN "advisory"
         ELSE "none"
    ELSE "none"

\* lines 117 and 301: the check the loop makes before the request
Monitor ==
    monitor_rate_limit(ratelimit.remaining, ratelimit.limit, ratelimit.reset, Clock)

CheckBug_StopsOnAdvisory(msg) == msg # "none"

\* lines 117-119 and 301-303: the message is only written out; the loop goes on
\* unless the check itself raised
CheckInterrupts(msg) == msg = "raised"

\* lines 116-119 and 300-303 alone: one check of the limits the client holds. An
\* exception of the check is outside every try of the collector and ends the job.
MonitorRateLimit ==
    /\ pc = "monitor"
    /\ IF CheckInterrupts(Monitor)
       THEN /\ pc' = "failed"
            /\ result' = "none"
            /\ UNCHANGED rate_limit_msg
       ELSE /\ pc' = "monitored"
            /\ rate_limit_msg' = Monitor
            /\ UNCHANGED result
    /\ UNCHANGED <<src, all_posts, max_id, items, params, response, type_list,
                   slept, log, last_batch, faults, profile_file>>
    /\ UNCHANGED journalVars
    /\ UNCHANGED <<argVars, enrichVars>>
    /\ UNCHANGED envVars

\* one request as the log keeps it: the API asked, the cursor sent, the items held
\* and the time slept since the request before, then the answer (outcome, the wait
\* d of a rate-limit signal, the batch and whether a next link came with it)
Entry(cursor, have, outcome, d, batch, has_next) ==
    [api |-> IF pc = "posts_loop" THEN "statuses" ELSE type_list,
     cursor |-> cursor, have |-> have, waited |-> slept,
     outcome |-> outcome, d |-> d, batch |-> batch, has_next |-> has_next,
     advisory |-> Monitor]

Unbound == [status |-> 0, retry_after |-> 0]

----------------------------------------------------------------------------
(* get_all_posts *)

\* line 320: posts of the batch whose id is not among the collected ones
DedupBug_KeepAll(batch, collected) == batch
NewItems(batch, collected) ==
    SelectSeq(batch, LAMBDA x : x \notin Range(collected))

\* line 317: max_id = batch[-1].id
CursorBug_First(batch) == batch[1]
CursorBug_NotAdvanced(batch) == 0
NextMaxId(batch) == Last(batch)

\* lines 467, 172: time.sleep(e.reset_in) / time.sleep(retry_after)
WaitBug_NoSleep(d) == 0
RetryWait(d) == d * TicksPerSecond

\* lines 163-164, 462-463: time.sleep(0.5)
CourtesyPause == 1
\* line 479: the instance used when the argument has no "@"
DefaultInstance == <<"mastodon.social">>
\* the handle of a whole-job run
JobArg == <<"a", "@", "b">>

\* get_all_posts returned: lines 536-545
PostsReturned(posts) ==
    /\ statuses' = posts
    /\ status_list' = <<>>
    /\ i' = 0
    /\ pc' = IF posts = <<>> THEN "accounts_begin" ELSE "posts_process"
    /\ type_list' = "followers"

\* the exception handlers of get_profile_info, lines 692-698
JobFails ==
    /\ pc' = "failed"
    /\ result' = "none"

\* lines 117 and 301 raise: the check is outside the try of the loop, the exception
\* leaves the collector before any request is made
CheckRaises ==
    /\ CheckInterrupts(Monitor)
    /\ JobFails
    /\ UNCHANGED <<src, all_posts, max_id, items, params, response, type_list,
                   slept, log, last_batch, faults, rate_limit_msg, profile_file>>
    /\ UNCHANGED journalVars
    /\ UNCHANGED <<argVars, enrichVars>>
    /\ UNCHANGED envVars

PostsCheckRaises ==
    /\ pc = "posts_loop"
    /\ CheckRaises

AccountsCheckRaises ==
    /\ pc = "accounts_loop"
    /\ CheckRaises

\* lines 289-298
GetAllPostsBegin ==
    /\ pc = "posts_begin"
    /\ src' \in JobSources
    /\ all_posts' = <<>>
    /\ max_id' = 0
    /\ log' = <<>>
    /\ last_batch' = <<>>
    /\ slept' = 0
    /\ pc' = "posts_loop"
    /\ UNCHANGED <<result, items, params, response, type_list, faults, profile_file>>
    /\ UNCHANGED journalVars
    /\ UNCHANGED <<argVars, enrichVars>>
    /\ UNCHANGED rate_limit_msg
    /\ UNCHANGED envVars

\* line 295 raises: the exception leaves get_all_posts
GetAllPostsAccountFails ==
    /\ pc = "posts_begin"
    /\ JobFails
    /\ UNCHANGED <<profile_file>>
    /\ UNCHANGED collectorVars
    /\ UNCHANGED journalVars
    /\ UNCHANGED <<argVars, enrichVars>>
    /\ UNCHANGED envVars

\* lines 312-463 for a batch answered by the source
\* an entry of calls: the operation, the post it is made for (0: none) and, for a
\* download, the path of the file it writes
NoPath == [post |-> 0, media |-> 0, ext |-> ""]
Call(op, post) == [op |-> op, post |-> post, path |-> NoPath]

\* lines 345-416 for posts that are public, original and that nobody reblogged or
\* favourited, which is what the sources of a collection run serve: the two
\* listings are asked for each post, in the order of the page
EnrichCallsOfIds(ids) ==
    [k \in 1..(2 * Len(ids)) |->
        Call(IF k % 2 = 1 THEN "status_reblogged_by" ELSE "status_favourited_by",
             ids[(k + 1) \div 2])]

PostsHandleBatch(batch, outcome) ==
    /\ calls' = calls \o EnrichCallsOfIds(NewItems(batch, all_posts))
    /\ log' = Append(log, Entry(max_id, all_posts, outcome, 0, batch, TRUE))
    /\ IF batch = <<>>
       THEN /\ UNCHANGED <<all_posts, max_id, last_batch>>
            /\ slept' = 0
            /\ PostsReturned(all_posts)
       ELSE /\ max_id' = NextMaxId(batch)
            /\ last_batch' = batch
            /\ IF NewItems(batch, all_posts) = <<>>
               THEN /\ UNCHANGED all_posts
                    /\ slept' = 0
                    /\ PostsReturned(all_posts)
               ELSE /\ all_posts' = all_posts \o NewItems(batch, all_posts)
                    /\ slept' = CourtesyPause
                    /\ UNCHANGED <<pc, statuses, status_list, i, type_list>>
    /\ UNCHANGED <<result, src, items, params, response, profile_file,
                   followers_data, followers, following_data, following,
                   posts_file, followers_file, following_file, flushes>>

\* the source answers the request with the page below max_id
PostsPage ==
    /\ pc = "posts_loop"
    /\ ~CheckInterrupts(Monitor)
    /\ rate_limit_msg' = Monitor
    /\ UNCHANGED faults
    /\ PostsHandleBatch(Served(StatusesPage(src, max_id)), "page")
    /\ UNCHANGED <<argVars, new_posts>>
    /\ UNCHANGED envVars

\* the source answers with the page below max_id, one post listed twice in it
PostsDupPage ==
    /\ pc = "posts_loop"
    /\ ~CheckInterrupts(Monitor)
    /\ rate_limit_msg' = Monitor
    /\ StatusesPage(src, max_id) # <<>>
    /\ faults > 0
    /\ faults' = faults - 1
    /\ PostsHandleBatch(Doubled(Served(StatusesPage(src, max_id))), "duplicate")
    /\ UNCHANGED <<argVars, new_posts>>
    /\ UNCHANGED envVars

\* the source ignores the cursor and repeats the previous page verbatim
PostsRepeat ==
    /\ pc = "posts_loop"
    /\ ~CheckInterrupts(Monitor)
    /\ rate_limit_msg' = Monitor
    /\ last_batch # <<>>
    /\ faults > 0
    /\ faults' = faults - 1
    /\ PostsHandleBatch(last_batch, "repeat")
    /\ UNCHANGED <<argVars, new_posts>>
    /\ UNCHANGED envVars

\* lines 465-467: MastodonRatelimitError with reset_in = d
PostsRateLimit ==
    /\ pc = "posts_loop"
    /\ ~CheckInterrupts(Monitor)
    /\ rate_limit_msg' = Monitor
    /\ faults > 0
    /\ \E d \in 1..MaxD :
         /\ log' = Append(log, Entry(max_id, all_posts, "ratelimit", d, <<>>, FALSE))
         /\ slept' = RetryWait(d)
    /\ faults' = faults - 1
    /\ UNCHANGED <<pc, result, src, all_posts, max_id, items, params, response,
                   type_list, last_batch, profile_file>>
    /\ UNCHANGED journalVars
    /\ UNCHANGED <<argVars, enrichVars>>
    /\ UNCHANGED envVars

\* line 312 raises an error that is not MastodonRatelimitError: no handler in
\* get_all_posts, the exception reaches lines 692-698
PostsError ==
    /\ pc = "posts_loop"
    /\ ~CheckInterrupts(Monitor)
    /\ rate_limit_msg' = Monitor
    /\ faults > 0
    /\ log' = Append(log, Entry(max_id, all_posts, "error", 0, <<>>, FALSE))
    /\ faults' = faults - 1
    /\ JobFails
    /\ UNCHANGED <<src, all_posts, max_id, items, params, response, type_list,
                   slept, last_batch, profile_file>>
    /\ UNCHANGED journalVars
    /\ UNCHANGED <<argVars, enrichVars>>
    /\ UNCHANGED envVars

----------------------------------------------------------------------------
(* get_followers_or_following_direct *)

\* get_followers_or_following_direct returned: lines 615-620 and 648-652
AccountsReturned(res) ==
    /\ i' = 0
    /\ IF type_list = "followers"
       THEN /\ followers_data' = res
            /\ followers' = <<>>
            /\ UNCHANGED <<following_data, following>>
            /\ pc' = IF res = <<>> THEN "accounts_begin" ELSE "accounts_process"
            /\ type_list' = IF res = <<>> THEN "following" ELSE type_list
       ELSE /\ following_data' = res
            /\ following' = <<>>
            /\ UNCHANGED <<followers_data, followers>>
            /\ pc' = IF res = <<>> THEN "summarize" ELSE "accounts_process"
            /\ UNCHANGED type_list

\* lines 100-113
AccountsBegin ==
    /\ pc = "accounts_begin"
    /\ src' \in JobSources
    /\ items' = <<>>
    /\ params' = 0
    /\ response' = Unbound
    /\ log' = <<>>
    /\ last_batch' = <<>>
    /\ slept' = 0
    /\ pc' = "accounts_loop"
    /\ UNCHANGED <<result, all_posts, max_id, type_list, faults, profile_file>>
    /\ UNCHANGED journalVars
    /\ UNCHANGED <<argVars, enrichVars>>
    /\ UNCHANGED rate_limit_msg
    /\ UNCHANGED envVars

\* line 108 raises: the exception leaves get_followers_or_following_direct
AccountsAccountFails ==
    /\ pc = "accounts_begin"
    /\ JobFails
    /\ UNCHANGED <<profile_file>>
    /\ UNCHANGED collectorVars
    /\ UNCHANGED journalVars
    /\ UNCHANGED <<argVars, enrichVars>>
    /\ UNCHANGED envVars

\* line 160: the running total has reached expected_total
TotalBug_Never(collected, expected_total) == FALSE
TotalReached(collected, expected_total) == Len(collected) >= expected_total

\* lines 125-164 for a 200 response carrying batch and, when has_next, a next link
AccountsHandleBatch(batch, has_next, next_params, outcome) ==
    /\ log' = Append(log, Entry(params, items, outcome, 0, batch, has_next))
    /\ response' = [status |-> 200, retry_after |-> 0]
    /\ IF batch = <<>>
       THEN /\ UNCHANGED <<items, params, last_batch>>
            /\ slept' = 0
            /\ AccountsReturned(items)
       ELSE /\ last_batch' = batch
            /\ IF NewItems(batch, items) = <<>>
               THEN /\ UNCHANGED <<items, params>>
                    /\ slept' = 0
                    /\ AccountsReturned(items)
               ELSE /\ items' = items \o NewItems(batch, items)
                    /\ IF ~has_next
                       THEN /\ UNCHANGED params
                            /\ slept' = 0
                            /\ AccountsReturned(items')
                       ELSE /\ params' = next_params
                            /\ IF TotalReached(items', src.counter)
                               THEN /\ slept' = 0
                                    /\ AccountsReturned(items')
                               ELSE /\ slept' = CourtesyPause
                                    /\ UNCHANGED <<pc, i, type_list, followers_data,
                                                   followers, following_data, following>>
    /\ UNCHANGED <<result, src, all_posts, max_id, profile_file, statuses,
                   status_list, posts_file, followers_file, following_file, flushes>>

\* the source answers the request with the page the parameters address
AccountsPageStep ==
    /\ pc = "accounts_loop"
    /\ ~CheckInterrupts(Monitor)
    /\ rate_limit_msg' = Monitor
    /\ UNCHANGED faults
    /\ AccountsHandleBatch(AccountsPage(src, params), HasNextLink(src, params),
                           NextLinkParams(src, params), "page")
    /\ UNCHANGED <<argVars, enrichVars>>
    /\ UNCHANGED envVars

\* the source answers with the page the parameters address, one account listed
\* twice in it
AccountsDupPage ==
    /\ pc = "accounts_loop"
    /\ ~CheckInterrupts(Monitor)
    /\ rate_limit_msg' = Monitor
    /\ AccountsPage(src, params) # <<>>
    /\ faults > 0
    /\ faults' = faults - 1
    /\ AccountsHandleBatch(Doubled(AccountsPage(src, params)), HasNextLink(src, params),
                           NextLinkParams(src, params), "duplicate")
    /\ UNCHANGED <<argVars, enrichVars>>
    /\ UNCHANGED envVars

\* the source repeats the previous page verbatim
AccountsRepeat ==
    /\ pc = "accounts_loop"
    /\ ~CheckInterrupts(Monitor)
    /\ rate_limit_msg' = Monitor
    /\ last_batch # <<>>
    /\ faults > 0
    /\ faults' = faults - 1
    /\ \E has_next \in BOOLEAN :
         AccountsHandleBatch(last_batch, has_next, params, "repeat")
    /\ UNCHANGED <<argVars, enrichVars>>
    /\ UNCHANGED envVars

\* line 170: int(response.headers.get("Retry-After", 60)); header 0 models no header
RetryAfter(header) == IF header = 0 THEN DefaultRetryAfter ELSE header

\* lines 166-174: the handler of requests.exceptions.RequestException, reading the
\* response variable as it is when the exception arrives
AccountsHandleException(resp) ==
    IF resp = Unbound
    THEN \* hasattr(response, ...) on an unassigned local raises UnboundLocalError
         /\ JobFails
         /\ UNCHANGED <<items, params, slept, type_list>>
         /\ UNCHANGED <<followers_data, followers, following_data, following, i>>
    ELSE IF resp.status = 429
    THEN /\ slept' = RetryWait(RetryAfter(resp.retry_after))
         /\ UNCHANGED <<pc, result, items, params, type_list>>
         /\ UNCHANGED <<followers_data, followers, following_data, following, i>>
    ELSE /\ slept' = 0
         /\ AccountsReturned(items)
         /\ UNCHANGED <<result, items, params>>

AccountsFaultFrame ==
    /\ faults' = faults - 1
    /\ UNCHANGED <<src, all_posts, max_id, last_batch, profile_file, statuses,
                   status_list, posts_file, followers_file, following_file, flushes>>

\* line 123 raises HTTPError for a 429 response
AccountsRateLimit ==
    /\ pc = "accounts_loop"
    /\ ~CheckInterrupts(Monitor)
    /\ rate_limit_msg' = Monitor
    /\ faults > 0
    /\ \E header \in 0..MaxD :
         /\ response' = [status |-> 429, retry_after |-> header]
         /\ log' = Append(log, Entry(params, items, "ratelimit", RetryAfter(header), <<>>, FALSE))
    /\ AccountsHandleException(response')
    /\ AccountsFaultFrame
    /\ UNCHANGED <<argVars, enrichVars>>
    /\ UNCHANGED envVars

\* line 123 raises HTTPError for another error status
AccountsHttpError ==
    /\ pc = "accounts_loop"
    /\ ~CheckInterrupts(Monitor)
    /\ rate_limit_msg' = Monitor
    /\ faults > 0
    /\ response' = [status |-> 500, retry_after |-> 0]
    /\ log' = Append(log, Entry(params, items, "httperror", 0, <<>>, FALSE))
    /\ AccountsHandleException(response')
    /\ AccountsFaultFrame
    /\ UNCHANGED <<argVars, enrichVars>>
    /\ UNCHANGED envVars

\* line 122 raises (no response received): response keeps its earlier value
AccountsConnError ==
    /\ pc = "accounts_loop"
    /\ ~CheckInterrupts(Monitor)
    /\ rate_limit_msg' = Monitor
    /\ faults > 0
    /\ UNCHANGED response
    /\ log' = Append(log, Entry(params, items, "connerror", 0, <<>>, FALSE))
    /\ AccountsHandleException(response)
    /\ AccountsFaultFrame
    /\ UNCHANGED <<argVars, enrichVars>>
    /\ UNCHANGED envVars

----------------------------------------------------------------------------
(* The processing loops of get_profile_info *)

\* lines 595, 642, 674: (i + 1) % batch_size == 0 or i == len(data) - 1
FlushBug_LastOnly(idx, n, batch_size) == idx = n - 1
FlushDue(idx, n, batch_size) == (idx + 1) % batch_size = 0 \/ idx = n - 1

\* line 605: existing_posts.extend(status_list[-batch_size:])
MergeBug_Overwrite(existing, list) == LastN(list, posts_batch_size)
MergedPosts(existing, list) == existing \o LastN(list, posts_batch_size)

Flushed(name, outcome, data) == [file |-> name, outcome |-> outcome, data |-> data]

\* lines 545-592: one post is reconstructed and appended to status_list
ProcessPost ==
    /\ pc = "posts_process"
    /\ i < Len(statuses)
    /\ status_list' = Append(status_list, statuses[i + 1])
    /\ calls' = Append(calls, Call("status_context", statuses[i + 1]))
    /\ IF FlushDue(i, Len(statuses), posts_batch_size)
       THEN pc' = "posts_flush" /\ UNCHANGED i
       ELSE pc' = "posts_process" /\ i' = i + 1
    /\ UNCHANGED <<result, profile_file, statuses, followers_data, followers,
                   following_data, following, posts_file, followers_file,
                   following_file, flushes>>
    /\ UNCHANGED collectorVars
    /\ UNCHANGED <<argVars, new_posts>>
    /\ UNCHANGED envVars

\* what lines 596-609 hand to save_data_to_file
PostsToWrite(file, list, idx) ==
    IF idx = 0 \/ file.state = "absent" THEN list ELSE MergedPosts(file.data, list)

AfterFlush(outcome, n, again, after) ==
    IF outcome = "killed"
    THEN pc' = "killed" /\ result' = "killed" /\ UNCHANGED i
    ELSE /\ i' = i + 1
         /\ pc' = IF i + 1 = n THEN after ELSE again
         /\ UNCHANGED result

\* lines 594-611
FlushPosts ==
    /\ pc = "posts_flush"
    /\ IF i # 0 /\ posts_file.state = "corrupt"
       THEN \* json.load raises JSONDecodeError, which line 607 does not catch
            /\ JobFails
            /\ UNCHANGED <<i, posts_file, flushes>>
       ELSE \E outcome \in WriteOutcomes :
              /\ posts_file' = save_data_to_file(posts_file,
                                   PostsToWrite(posts_file, status_list, i), outcome)
              /\ flushes' = Append(flushes, Flushed("posts", outcome,
                                   PostsToWrite(posts_file, status_list, i)))
              /\ AfterFlush(outcome, Len(statuses), "posts_process", "accounts_begin")
    /\ UNCHANGED <<profile_file, statuses, status_list, followers_data, followers,
                   following_data, following, followers_file, following_file>>
    /\ UNCHANGED collectorVars
    /\ UNCHANGED <<argVars, enrichVars>>
    /\ UNCHANGED envVars

\* lines 620-639 and 652-671: one account is appended to followers / following
ProcessAccount ==
    /\ pc = "accounts_process"
    /\ IF type_list = "followers"
       THEN /\ i < Len(followers_data)
            /\ followers' = Append(followers, followers_data[i + 1])
            /\ UNCHANGED following
            /\ IF FlushDue(i, Len(followers_data), accounts_batch_size)
               THEN pc' = "accounts_flush" /\ UNCHANGED i
               ELSE pc' = "accounts_process" /\ i' = i + 1
       ELSE /\ i < Len(following_data)
            /\ following' = Append(following, following_data[i + 1])
            /\ UNCHANGED followers
            /\ IF FlushDue(i, Len(following_data), accounts_batch_size)
               THEN pc' = "accounts_flush" /\ UNCHANGED i
               ELSE pc' = "accounts_process" /\ i' = i + 1
    /\ UNCHANGED <<result, profile_file, statuses, status_list, followers_data,
                   following_data, posts_file, followers_file, following_file, flushes>>
    /\ UNCHANGED collectorVars
    /\ UNCHANGED <<argVars, enrichVars>>
    /\ UNCHANGED envVars

FlushAccountsBug_SameFile ==
    /\ pc = "accounts_flush"
    /\ \E outcome \in WriteOutcomes :
         IF type_list = "followers"
         THEN /\ followers_file' = save_data_to_file(followers_file, followers, outcome)
              /\ flushes' = Append(flushes, Flushed("followers", outcome, followers))
              /\ AfterFlush(outcome, Len(followers_data), "accounts_process",
                            "accounts_begin")
              /\ type_list' = IF outcome # "killed" /\ i + 1 = Len(followers_data)
                              THEN "following" ELSE type_list
              /\ UNCHANGED following_file
         ELSE /\ followers_file' = save_data_to_file(followers_file, following, outcome)
              /\ flushes' = Append(flushes, Flushed("following", outcome, following))
              /\ AfterFlush(outcome, Len(following_data), "accounts_process",
                            "summarize")
              /\ UNCHANGED <<type_list, following_file>>
    /\ UNCHANGED <<profile_file, statuses, status_list, followers_data, followers,
                   following_data, following, posts_file>>
    /\ UNCHANGED <<src, all_posts, max_id, items, params, response, slept, log,
                   last_batch, faults>>
    /\ UNCHANGED <<argVars, enrichVars>>
    /\ UNCHANGED rate_limit_msg
    /\ UNCHANGED envVars

\* lines 641-644 and 673-676
FlushAccounts ==
    /\ pc = "accounts_flush"
    /\ \E outcome \in WriteOutcomes :
         IF type_list = "followers"
         THEN /\ followers_file' = save_data_to_file(followers_file, followers, outcome)
              /\ flushes' = Append(flushes, Flushed("followers", outcome, followers))
              /\ AfterFlush(outcome, Len(followers_data), "accounts_process",
                            "accounts_begin")
              /\ type_list' = IF outcome # "killed" /\ i + 1 = Len(followers_data)
                              THEN "following" ELSE type_list
              /\ UNCHANGED following_file
         ELSE /\ following_file' = save_data_to_file(following_file, following, outcome)
              /\ flushes' = Append(flushes, Flushed("following", outcome, following))
              /\ AfterFlush(outcome, Len(following_data), "accounts_process",
                            "summarize")
              /\ UNCHANGED <<type_list, followers_file>>
    /\ UNCHANGED <<profile_file, statuses, status_list, followers_data, followers,
                   following_data, following, posts_file>>
    /\ UNCHANGED <<src, all_posts, max_id, items, params, response, slept, log,
                   last_batch, faults>>
    /\ UNCHANGED <<argVars, enrichVars>>
    /\ UNCHANGED rate_limit_msg
    /\ UNCHANGED envVars

\* The job is run again for the same, unchanged profile after a run that left a
\* posts.json: lines 484-496 name the same directory and files (makedirs with
\* exist_ok), get_all_posts returns the same posts, line 541 starts from an empty
\* status_list. previous keeps what the earlier run left in posts.json.
RunAgain ==
    /\ pc = "accounts_begin"
    /\ statuses # <<>>
    /\ previous = Absent
    /\ posts_file.state = "json"
    /\ previous' = posts_file
    /\ status_list' = <<>>
    /\ i' = 0
    /\ pc' = "posts_process"
    /\ UNCHANGED <<result, profile_file, statuses, followers_data, followers,
                   following_data, following, posts_file, followers_file,
                   following_file, flushes>>
    /\ UNCHANGED collectorVars
    /\ UNCHANGED <<argVars, enrichVars>>
    /\ UNCHANGED <<ratelimit, page_order>>

----------------------------------------------------------------------------
(* get_profile_info *)

\* lines 474-490: the argument is split at "@", then the output directories are
\* made. Unpacking str.split into two names raises ValueError unless the split
\* gives exactly two parts; the handler of line 480 returns None.
RECURSIVE Split(_, _)
Split(s, sep) ==
    IF s = <<>> THEN << <<>> >>
    ELSE LET rest == Split(Tail(s), sep)
         IN  IF Head(s) = sep
             THEN << <<>> >> \o rest
             ELSE << <<Head(s)>> \o Head(rest) >> \o Tail(rest)

NoDir == [made |-> FALSE, username |-> <<>>, instance |-> <<>>]

ParseProfileArg(arg) ==
    IF "@" \in Range(arg)
    THEN LET parts == Split(arg, "@")
         IN  IF Len(parts) = 2
             THEN [ok |-> TRUE, username |-> parts[1], instance |-> parts[2]]
             ELSE [ok |-> FALSE, username |-> <<>>, instance |-> <<>>]
    ELSE [ok |-> TRUE, username |-> arg, instance |-> DefaultInstance]

Parse ==
    /\ pc = "parse"
    /\ LET parsed == ParseProfileArg(profile_arg)
       IN  IF parsed.ok
           THEN /\ username' = parsed.username
                /\ instance' = parsed.instance
                /\ output_dir' = [made |-> TRUE, username |-> parsed.username,
                                  instance |-> parsed.instance]
                /\ pc' = "resolve"
                /\ UNCHANGED result
           ELSE /\ pc' = "failed"
                /\ result' = "none"
                /\ UNCHANGED <<username, instance, output_dir>>
    /\ UNCHANGED <<profile_arg, profile_file, type_list>>
    /\ UNCHANGED collectorVars
    /\ UNCHANGED journalVars
    /\ UNCHANGED enrichVars
    /\ UNCHANGED envVars

ResolveBug_NoSnapshot ==
    /\ pc = "resolve"
    /\ username # <<>>
    /\ calls' = Append(calls, Call("account_lookup", 0))
    /\ pc' = "posts_begin"
    /\ UNCHANGED <<result, profile_file, type_list, argVars, new_posts>>
    /\ UNCHANGED collectorVars
    /\ UNCHANGED journalVars
    /\ UNCHANGED envVars

\* lines 501-531: the account is looked up on the instance and the profile saved;
\* no instance has an account with an empty name
Resolve ==
    /\ pc = "resolve"
    /\ username # <<>>
    /\ calls' = Append(calls, Call("account_lookup", 0))
    /\ UNCHANGED <<argVars, new_posts>>
    /\ \E outcome \in WriteOutcomes :
         /\ profile_file' = save_data_to_file(profile_file, <<"profile">>, outcome)
         /\ flushes' = Append(flushes, Flushed("profile", outcome, <<"profile">>))
         /\ IF outcome = "killed"
            THEN pc' = "killed" /\ result' = "killed"
            ELSE pc' = "posts_begin" /\ UNCHANGED result
    /\ UNCHANGED collectorVars
    /\ UNCHANGED <<statuses, status_list, followers_data, followers, following_data,
                   following, i, posts_file, followers_file, following_file>>
    /\ UNCHANGED envVars

\* line 508 raises: the account is unknown or the instance unreachable
ResolveFails ==
    /\ pc = "resolve"
    /\ JobFails
    /\ calls' = Append(calls, Call("account_lookup", 0))
    /\ UNCHANGED <<argVars, new_posts>>
    /\ UNCHANGED <<profile_file>>
    /\ UNCHANGED collectorVars
    /\ UNCHANGED journalVars
    /\ UNCHANGED envVars

\* lines 678-690
Summarize ==
    /\ pc = "summarize"
    /\ pc' = "done"
    /\ result' = "ok"
    /\ UNCHANGED <<profile_file>>
    /\ UNCHANGED collectorVars
    /\ UNCHANGED journalVars
    /\ UNCHANGED <<argVars, enrichVars>>
    /\ UNCHANGED envVars

----------------------------------------------------------------------------
(* One post: classification, actor lists, cross-reference, media, record *)

\* A text is a sequence of tokens. The token "activity" stands for that word and
\* "/" for the separator; no other token holds a "/" or starts with the letters of
\* "activity", so a substring test for "/activity" is a search for the two tokens.
UrlPlain == <<"/", "/", "h", "/", "@a", "/", "42">>
UrlActivityLast == <<"/", "/", "h", "/", "users", "/", "a", "/", "statuses", "/",
                     "42", "/", "activity">>
UrlActivityInside == <<"/", "/", "h", "/", "activity", "/", "42">>
UrlActivityPrefix == <<"/", "/", "h", "/", "activity", "pub", "/", "42">>
UrlActivityHost == <<"/", "/", "activity", "pub.academy", "/", "@a", "/", "42">>
Urls == {UrlPlain, UrlActivityLast, UrlActivityInside, UrlActivityPrefix,
         UrlActivityHost}

\* str.__contains__
Contains(s, sub) ==
    \E k \in 1..(Len(s) - Len(sub) + 1) : SubSeq(s, k, k + Len(sub) - 1) = sub

\* media attachments as the API serves them; the url is kept as (root, extension),
\* the two parts os.path.splitext gives
MediaOfOriginal ==
    [id |-> 5, type |-> "image", url |-> [root |-> "m5", ext |-> ".png"],
     local_path |-> NoPath]
MediaOfPost ==
    [id |-> 6, type |-> "video", url |-> [root |-> "m6", ext |-> ""],
     local_path |-> NoPath]

\* the post embedded in a reblog
Original(k) == [id |-> k, content |-> <<"<p>", "o", "</p>">>,
                media_attachments |-> <<MediaOfOriginal>>]

NoReblog == {[kind |-> "noattr", id |-> 0], [kind |-> "none", id |-> 0]}
Payloads == {[kind |-> "payload", id |-> 7], [kind |-> "payload", id |-> 8]}

\* the posts a page can hold
RawPosts(k) ==
    [id : {k}, reblog : NoReblog \cup Payloads,
     content : {<<>>, <<"<p>", "t", "</p>">>},
     url : Urls, visibility : {"public", "unlisted", "private"},
     media_attachments : {<<>>, <<MediaOfPost>>}]

\* a reblog of one of the originals, not public
OtherReblogs(k) ==
    [id : {k}, reblog : Payloads, content : {<<>>}, url : {UrlActivityLast},
     visibility : {"private"}, media_attachments : {<<>>}]

\* lines 244-287, clean_content: the markup is stripped from the body
clean_content(content) ==
    [text |-> SelectSeq(content, LAMBDA t : t \notin {"<p>", "</p>"})]

\* line 448
Unavailable == [text |-> <<"Action non disponible">>]

ClassifyBug_FavoriteFirst(post) ==
    IF post.content = <<>> /\ Contains(post.url, <<"/", "activity">>) THEN "favorite"
    ELSE IF post.reblog.kind = "payload" THEN "reblog"
    ELSE "original"

\* line 330
Classify(post) ==
    IF post.reblog.kind = "payload" THEN "reblog"
    ELSE IF post.content = <<>> /\ Contains(post.url, <<"/", "activity">>) THEN "favorite"
    ELSE "original"

PublicBug_Always(visibility) == TRUE

\* line 346
IsPublic(visibility) == visibility = "public"

\* what a reblogged-by or favourited-by listing can answer: an error, or up to
\* MaxActors accounts whose account_lookup then succeeds ("full") or fails ("basic")
RECURSIVE SeqsUpTo(_, _)
SeqsUpTo(S, n) ==
    IF n = 0 THEN {<<>>}
    ELSE LET shorter == SeqsUpTo(S, n - 1)
         IN  shorter \cup {Append(q, x) : q \in shorter, x \in S}

NoListing == [ok |-> FALSE, users |-> <<>>]
Listings ==
    {NoListing} \cup [ok : {TRUE}, users : SeqsUpTo({"full", "basic"}, MaxActors)]

ActorsBug_DropsFailed(listing) ==
    IF listing.ok
    THEN SelectSeq([k \in 1..Len(listing.users) |-> [id |-> k, detail |-> listing.users[k]]],
                   LAMBDA a : a.detail = "full")
    ELSE <<>>

\* lines 347-376 and 381-410: the list built from a listing
Actors(listing) ==
    IF listing.ok
    THEN [k \in 1..Len(listing.users) |-> [id |-> k, detail |-> listing.users[k]]]
    ELSE <<>>

\* the calls of lines 347-413 for one listing
ListingCalls(op, post, listing) ==
    <<Call(op, post.id)>>
    \o [k \in 1..Len(listing.users) |-> Call("account_lookup", post.id)]

NoRef == [set |-> FALSE, id |-> 0, media_attachments |-> <<>>]

\* lines 326-452: the dictionary built for one raw post. rb and fv are the answers
\* of the two listings, st tells whether mastodon.status answered. A key the code
\* leaves out is NoRef here.
post_dict(post, rb, fv, st) ==
    LET type == Classify(post)
        public == IsPublic(post.visibility)
    IN  [id |-> post.id,
         type |-> type,
         url |-> post.url,
         visibility |-> post.visibility,
         media_attachments |-> post.media_attachments,
         rebloggers |-> IF public THEN Actors(rb) ELSE <<>>,
         favouriters |-> IF public THEN Actors(fv) ELSE <<>>,
         content |-> IF type = "reblog" THEN clean_content(Original(post.reblog.id).content)
                     ELSE IF type = "favorite"
                     THEN (IF st THEN clean_content(<<"<p>", "f", "</p>">>)
                           ELSE Unavailable)
                     ELSE clean_content(post.content),
         reblogged_from |-> IF type = "reblog"
                            THEN [set |-> TRUE, id |-> post.reblog.id,
                                  media_attachments |->
                                      Original(post.reblog.id).media_attachments]
                            ELSE NoRef,
         favorited_status |-> IF type = "favorite" /\ st
                              THEN [set |-> TRUE, id |-> 42, media_attachments |-> <<>>]
                              ELSE NoRef]

\* the calls lines 345-450 issue for one raw post
EnrichCalls(post, rb, fv) ==
    (IF IsPublic(post.visibility)
     THEN ListingCalls("status_reblogged_by", post, rb)
          \o ListingCalls("status_favourited_by", post, fv)
     ELSE <<>>)
    \o (IF Classify(post) = "favorite" THEN <<Call("status", post.id)>> ELSE <<>>)

\* lines 326-454: one post of new_posts is turned into its dictionary; after the
\* last one the collector returns the list (the next page is empty)
EnrichPost ==
    /\ pc = "enrich"
    /\ Len(all_posts) < Len(new_posts)
    /\ LET post == new_posts[Len(all_posts) + 1]
       IN  \E rb \in Listings, fv \in Listings, st \in BOOLEAN :
             /\ IsPublic(post.visibility) \/ (rb = NoListing /\ fv = NoListing)
             /\ Classify(post) = "favorite" \/ ~st
             /\ all_posts' = Append(all_posts, post_dict(post, rb, fv, st))
             /\ calls' = calls \o EnrichCalls(post, rb, fv)
    /\ IF Len(all_posts') = Len(new_posts)
       THEN PostsReturned(all_posts')
       ELSE UNCHANGED <<pc, statuses, status_list, i, type_list>>
    /\ UNCHANGED <<result, src, max_id, items, params, response, slept, log,
                   last_batch, faults, followers_data, followers, following_data,
                   following, profile_file, posts_file, followers_file,
                   following_file, flushes, new_posts>>
    /\ UNCHANGED argVars
    /\ UNCHANGED rate_limit_msg
    /\ UNCHANGED envVars

MediaPostIdBug_OwnId(status) == status.id

\* line 561: the post id the file name is built from
MediaPostId(status) ==
    IF status.reblogged_from.set THEN status.reblogged_from.id ELSE status.id

\* lines 555-562: save_path
SavePath(status, media) ==
    [post |-> MediaPostId(status),
     media |-> media.id,
     ext |-> IF media.url.ext # "" THEN media.url.ext
             ELSE IF media.type = "image" THEN ".jpg" ELSE ".mp4"]

\* lines 547-551
MediaToFetch(status) ==
    status.media_attachments
    \o (IF status.reblogged_from.set THEN status.reblogged_from.media_attachments
        ELSE <<>>)

\* lines 553-565: dl[k] tells whether the k-th download succeeded
Fetched(status, dl) ==
    [k \in 1..Len(MediaToFetch(status)) |->
        IF dl[k]
        THEN [MediaToFetch(status)[k] EXCEPT
                 !.local_path = SavePath(status, MediaToFetch(status)[k])]
        ELSE MediaToFetch(status)[k]]

\* lines 570-591: the record appended to status_list. The attachments of the
\* embedded post are the very dictionaries the downloads wrote local_path into.
reconstructed_post(status, dl, replies) ==
    [id |-> status.id,
     content |-> status.content,
     url |-> status.url,
     media_attachments |-> Fetched(status, dl),
     visibility |-> status.visibility,
     rebloggers |-> status.rebloggers,
     favouriters |-> status.favouriters,
     replies |-> replies,
     reblogged_from |->
         IF status.reblogged_from.set
         THEN [status.reblogged_from EXCEPT
                  !.media_attachments =
                      SubSeq(Fetched(status, dl), Len(status.media_attachments) + 1,
                             Len(MediaToFetch(status)))]
         ELSE NoRef,
     favorited_status |-> status.favorited_status]

\* the calls of lines 553-568 for one post
ReconstructCalls(status) ==
    [k \in 1..Len(MediaToFetch(status)) |->
        [op |-> "download_media", post |-> status.id,
         path |-> SavePath(status, MediaToFetch(status)[k])]]
    \o <<Call("status_context", status.id)>>

\* lines 545-592 on the dictionaries get_all_posts returned: media, replies, record
ReconstructPost ==
    /\ pc = "posts_process"
    /\ i < Len(statuses)
    /\ LET status == statuses[i + 1]
       IN  \E dl \in [1..Len(MediaToFetch(status)) -> BOOLEAN],
              replies \in {<<>>, <<"reply">>} :
             /\ status_list' = Append(status_list, reconstructed_post(status, dl, replies))
             /\ calls' = calls \o ReconstructCalls(status)
    /\ IF FlushDue(i, Len(statuses), posts_batch_size)
       THEN pc' = "posts_flush" /\ UNCHANGED i
       ELSE pc' = "posts_process" /\ i' = i + 1
    /\ UNCHANGED <<result, profile_file, statuses, followers_data, followers,
                   following_data, following, posts_file, followers_file,
                   following_file, flushes, new_posts>>
    /\ UNCHANGED collectorVars
    /\ UNCHANGED argVars
    /\ UNCHANGED envVars

----------------------------------------------------------------------------
(* Specifications *)

\* the client knows no rate limit, pages come newest first, and the output
\* directory is new
Quiet ==
    /\ ratelimit = NoRateLimit
    /\ rate_limit_msg = "none"
    /\ page_order = "newest_first"
    /\ previous = Absent

Idle ==
    /\ result = "running"
    /\ src = [n |-> 0, p |-> 1, counter |-> 0, last_next |-> FALSE]
    /\ all_posts = <<>> /\ max_id = 0
    /\ items = <<>> /\ params = 0 /\ response = Unbound
    /\ slept = 0 /\ log = <<>> /\ last_batch = <<>> /\ faults = MaxJobFaults
    /\ statuses = <<>> /\ status_list = <<>>
    /\ followers_data = <<>> /\ followers = <<>>
    /\ following_data = <<>> /\ following = <<>>
    /\ i = 0
    /\ posts_file = Absent /\ followers_file = Absent /\ following_file = Absent
    /\ flushes = <<>>
    /\ new_posts = <<>> /\ calls = <<>>
    /\ Quiet

\* a job whose argument was parsed and whose directories exist (lines 484-496)
Started ==
    /\ profile_arg = JobArg
    /\ username = ParseProfileArg(JobArg).username
    /\ instance = ParseProfileArg(JobArg).instance
    /\ output_dir = [made |-> TRUE, username |-> username, instance |-> instance]

\* get_profile_info is called with a well-formed handle
Init ==
    /\ pc = "parse"
    /\ type_list = "followers"
    /\ profile_file = Absent
    /\ profile_arg = JobArg
    /\ username = <<>> /\ instance = <<>> /\ output_dir = NoDir
    /\ Idle

Next ==
    \/ Parse
    \/ Resolve
    \/ ResolveFails
    \/ GetAllPostsBegin
    \/ GetAllPostsAccountFails
    \/ PostsPage
    \/ PostsRepeat
    \/ PostsRateLimit
    \/ PostsError
    \/ ProcessPost
    \/ FlushPosts
    \/ AccountsBegin
    \/ AccountsAccountFails
    \/ AccountsPageStep
    \/ AccountsRepeat
    \/ AccountsRateLimit
    \/ AccountsHttpError
    \/ AccountsConnError
    \/ ProcessAccount
    \/ FlushAccounts
    \/ Summarize

Spec == Init /\ [][Next]_vars

\* get_all_posts alone: the state after lines 289-298, for any source
PostsStart ==
    /\ pc = "posts_loop"
    /\ type_list = "followers"
    /\ profile_file = Json(<<"profile">>)
    /\ result = "running"
    /\ src \in PostsSources
    /\ all_posts = <<>> /\ max_id = 0
    /\ items = <<>> /\ params = 0 /\ response = Unbound
    /\ slept = 0 /\ log = <<>> /\ last_batch = <<>> /\ faults = MaxFaults
    /\ statuses = <<>> /\ status_list = <<>>
    /\ followers_data = <<>> /\ followers = <<>>
    /\ following_data = <<>> /\ following = <<>>
    /\ i = 0
    /\ posts_file = Absent /\ followers_file = Absent /\ following_file = Absent
    /\ flushes = <<>>
    /\ Started /\ new_posts = <<>> /\ calls = <<>>


\* get_followers_or_following_direct alone: the state after lines 100-113
AccountsStart ==
    /\ pc = "accounts_loop"
    /\ type_list \in {"followers", "following"}
    /\ profile_file = Json(<<"profile">>)
    /\ result = "running"
    /\ src \in Sources
    /\ all_posts = <<>> /\ max_id = 0
    /\ items = <<>> /\ params = 0 /\ response = Unbound
    /\ slept = 0 /\ log = <<>> /\ last_batch = <<>> /\ faults = MaxFaults
    /\ statuses = <<>> /\ status_list = <<>>
    /\ followers_data = <<>> /\ followers = <<>>
    /\ following_data = <<>> /\ following = <<>>
    /\ i = 0
    /\ posts_file = Absent /\ followers_file = Absent /\ following_file = Absent
    /\ flushes = <<>>
    /\ Started /\ new_posts = <<>> /\ calls = <<>>

InitPosts == PostsStart /\ Quiet

InitAccounts == AccountsStart /\ Quiet

\* either collector, alone
InitCollectors == InitPosts \/ InitAccounts

NextCollectors ==
    \/ PostsPage
    \/ PostsRepeat
    \/ PostsRateLimit
    \/ PostsError
    \/ AccountsPageStep
    \/ AccountsRepeat
    \/ AccountsRateLimit
    \/ AccountsHttpError
    \/ AccountsConnError

SpecCollectors == InitCollectors /\ [][NextCollectors]_vars

\* the loops of lines 115 and 299 are sequential code: a collector that can take its
\* next step takes it
SpecCollectorsFair == SpecCollectors /\ WF_vars(NextCollectors)

\* the processing loops alone: a collector has just returned a list of any length
InitJournal ==
    /\ profile_file = Json(<<"profile">>)
    /\ result = "running"
    /\ src = [n |-> 0, p |-> 1, counter |-> 0, last_next |-> FALSE]
    /\ all_posts = <<>> /\ max_id = 0
    /\ items = <<>> /\ params = 0 /\ response = Unbound
    /\ slept = 0 /\ log = <<>> /\ last_batch = <<>> /\ faults = MaxFaults
    /\ status_list = <<>> /\ followers = <<>> /\ following = <<>>
    /\ i = 0
    /\ posts_file = Absent /\ followers_file = Absent /\ following_file = Absent
    /\ flushes = <<>>
    /\ Started /\ new_posts = <<>> /\ calls = <<>>
    /\ Quiet
    /\ \/ /\ pc = "posts_process"
          /\ type_list = "followers"
          /\ \E n \in 1..MaxPosts : statuses = Descending(n, 1)
          /\ followers_data = <<>> /\ following_data = <<>>
       \/ /\ pc = "accounts_process"
          /\ type_list = "followers"
          /\ statuses = <<>> /\ following_data = <<>>
          /\ \E n \in 1..MaxAccounts : followers_data = Ascending(1, n)
       \/ /\ pc = "accounts_process"
          /\ type_list = "following"
          /\ statuses = <<>> /\ followers_data = <<>>
          /\ \E n \in 1..MaxAccounts : following_data = Ascending(1, n)

NextJournal ==
    \/ ProcessPost
    \/ FlushPosts
    \/ ProcessAccount
    \/ FlushAccounts

SpecJournal == InitJournal /\ [][NextJournal]_vars

\* enrichment and processing of one page of posts: the page holds one post of any
\* shape, alone or followed by a reblog
InitEnrich ==
    /\ pc = "enrich"
    /\ type_list = "followers"
    /\ profile_file = Json(<<"profile">>)
    /\ result = "running"
    /\ src = [n |-> 0, p |-> 1, counter |-> 0, last_next |-> FALSE]
    /\ all_posts = <<>> /\ max_id = 0
    /\ items = <<>> /\ params = 0 /\ response = Unbound
    /\ slept = 0 /\ log = <<>> /\ last_batch = <<>> /\ faults = 0
    /\ statuses = <<>> /\ status_list = <<>>
    /\ followers_data = <<>> /\ followers = <<>>
    /\ following_data = <<>> /\ following = <<>>
    /\ i = 0
    /\ posts_file = Absent /\ followers_file = Absent /\ following_file = Absent
    /\ flushes = <<>>
    /\ Started /\ calls = <<>>
    /\ Quiet
    /\ \E post \in RawPosts(1) :
         \/ new_posts = <<post>>
         \/ \E other \in OtherReblogs(2) : new_posts = <<post, other>>

NextEnrich ==
    \/ EnrichPost
    \/ ReconstructPost
    \/ FlushPosts

SpecEnrich == InitEnrich /\ [][NextEnrich]_vars

\* the profile arguments: every text of up to MaxArgLen characters over two
\* letters and "@"
ProfileArgs == SeqsUpTo({"a", "b", "@"}, MaxArgLen)

\* get_profile_info is called with any argument; the run is followed up to the
\* snapshot of the profile
InitParse ==
    /\ pc = "parse"
    /\ type_list = "followers"
    /\ profile_file = Absent
    /\ profile_arg \in ProfileArgs
    /\ username = <<>> /\ instance = <<>> /\ output_dir = NoDir
    /\ Idle

NextParse ==
    \/ Parse
    \/ Resolve
    \/ ResolveFails

SpecParse == InitParse /\ [][NextParse]_vars

\* limits a client can hold during a collection: none known, a window used up
\* that ends after ExhaustedUntil ticks, or a limit of zero
Exhausted == [remaining |-> 0, limit |-> 1, reset |-> ExhaustedUntil]
ZeroLimit == [remaining |-> 0, limit |-> 0, reset |-> 0]
CollectorRateLimits == {NoRateLimit, Exhausted, ZeroLimit}

\* either collector, alone, with a client that holds rate-limit values
InitMonitored ==
    /\ PostsStart \/ AccountsStart
    /\ ratelimit \in CollectorRateLimits
    /\ rate_limit_msg = "none"
    /\ page_order = "newest_first"
    /\ previous = Absent

NextMonitored ==
    \/ PostsCheckRaises
    \/ AccountsCheckRaises
    \/ PostsPage
    \/ PostsRepeat
    \/ PostsRateLimit
    \/ PostsError
    \/ AccountsPageStep
    \/ AccountsRepeat
    \/ AccountsRateLimit
    \/ AccountsHttpError
    \/ AccountsConnError

SpecMonitored == InitMonitored /\ [][NextMonitored]_vars

\* get_all_posts alone, on an instance that lists the posts of a page newest first
\* or oldest first
InitUnordered ==
    /\ PostsStart
    /\ page_order \in {"newest_first", "oldest_first"}
    /\ ratelimit = NoRateLimit
    /\ rate_limit_msg = "none"
    /\ previous = Absent

NextUnordered ==
    \/ PostsPage
    \/ PostsRepeat
    \/ PostsRateLimit
    \/ PostsError

SpecUnordered == InitUnordered /\ [][NextUnordered]_vars

\* the two collectors on an instance whose pages can overlap, be repeated, or list
\* an item twice
InitDupPages == InitUnordered \/ InitAccounts

NextDupPages ==
    \/ NextCollectors
    \/ PostsDupPage
    \/ AccountsDupPage

SpecDupPages == InitDupPages /\ [][NextDupPages]_vars

\* the posts loop of a first run in an empty directory, then of a second run for the
\* same profile
InitRerun == InitJournal /\ pc = "posts_process"

NextRerun ==
    \/ ProcessPost
    \/ FlushPosts
    \/ RunAgain

SpecRerun == InitRerun /\ [][NextRerun]_vars

\* the limits a client can hold: unknown, or any numbers up to the bounds
RateLimits ==
    [remaining : {None} \cup 0..MaxRemaining,
     limit : {None} \cup 0..MaxLimit,
     reset : 0..MaxTime]

\* the check alone, for any limits and any reading of the clock
InitMonitor ==
    /\ pc = "monitor"
    /\ type_list = "followers"
    /\ profile_file = Json(<<"profile">>)
    /\ result = "running"
    /\ src = [n |-> 0, p |-> 1, counter |-> 0, last_next |-> FALSE]
    /\ all_posts = <<>> /\ max_id = 0
    /\ items = <<>> /\ params = 0 /\ response = Unbound
    /\ log = <<>> /\ last_batch = <<>> /\ faults = 0
    /\ statuses = <<>> /\ status_list = <<>>
    /\ followers_data = <<>> /\ followers = <<>>
    /\ following_data = <<>> /\ following = <<>>
    /\ i = 0
    /\ posts_file = Absent /\ followers_file = Absent /\ following_file = Absent
    /\ flushes = <<>>
    /\ Started /\ new_posts = <<>> /\ calls = <<>>
    /\ rate_limit_msg = "none"
    /\ page_order = "newest_first"
    /\ previous = Absent
    /\ ratelimit \in RateLimits
    /\ slept \in 0..MaxTime

NextMonitor ==
    \/ MonitorRateLimit

SpecMonitor == InitMonitor /\ [][NextMonitor]_vars

----------------------------------------------------------------------------
(* Properties of the collectors *)

InLoop == pc \in {"posts_loop", "accounts_loop"}

\* the API the running (or last) collection asked
ApiOf == IF log = <<>> THEN "none" ELSE log[1].api

\* the collector returned its list to get_profile_info
PostsDone == ApiOf = "statuses" /\ ~InLoop /\ pc # "failed"
AccountsDone == ApiOf \in {"followers", "following"} /\ ~InLoop /\ pc # "failed"

\* every request was answered by the page asked for or by a rate-limit signal
OnlyPagesAndRateLimits ==
    \A k \in 1..Len(log) : log[k].outcome \in {"page", "ratelimit"}

OnlyPages == \A k \in 1..Len(log) : log[k].outcome = "page"

CeilDiv(a, b) == (a + b - 1) \div b

\* what a source yields to a collection nothing disturbs
ExpectedPosts(s) == Descending(s.n, 1)
ExpectedAccounts(s) ==
    Ascending(1, Min(s.n, s.p * Max(1, CeilDiv(s.counter, s.p))))

\* C1: get_all_posts, on a source of N unique posts served newest first in pages of
\* P < N that honours max_id, ends and returns exactly the N posts, each id once.
C1_PostsCollectAll ==
    /\ [](PostsDone /\ src.p < src.n /\ OnlyPagesAndRateLimits
            => /\ statuses = all_posts
               /\ Len(statuses) = src.n
               /\ Range(statuses) = 1..src.n
               /\ NoDuplicates(statuses))
    /\ <>(pc # "posts_loop")

C1_Witness ==
    /\ PostsDone /\ OnlyPages
    /\ src.n = MaxN /\ src.p = 2
    /\ Len(log) = 3
    /\ statuses = Descending(MaxN, 1)

\* the condition on which the link-header traversal ends after an answered request
AccountsStopCondition(e) ==
    \/ e.batch = <<>>
    \/ Range(e.batch) \subseteq Range(e.have)
    \/ ~e.has_next
    \/ Len(items) >= src.counter

\* C2: get_followers_or_following_direct stops after an answered request exactly
\* when the page is empty, holds no unseen id, came without next link, or the running
\* total has reached the counter read up front; with N accounts in pages of P < N, a
\* next link on every non-final page and a counter of N it ends with exactly the N
\* accounts, each once.
C2_AccountsStopAndCollectAll ==
    /\ [](log # <<>> /\ Last(log).api # "statuses"
            /\ Last(log).outcome \in {"page", "repeat"}
            => (pc # "accounts_loop" <=> AccountsStopCondition(Last(log))))
    /\ [](AccountsDone /\ src.counter = src.n /\ src.p < src.n
            /\ OnlyPagesAndRateLimits
            => /\ Len(items) = src.n
               /\ Range(items) = 1..src.n
               /\ NoDuplicates(items))
    /\ <>(pc # "accounts_loop")

C2_Witness ==
    /\ AccountsDone /\ OnlyPages
    /\ src.n = MaxN /\ src.p = 2 /\ src.counter = src.n /\ src.last_next
    /\ Len(log) = 2
    /\ Last(log).has_next
    /\ items = Ascending(1, MaxN)

\* C3: when the source repeats the previous page verbatim, either collector ends at
\* that request, and what it returns holds no item twice.
C3_RepeatedPageEnds ==
    log # <<>> /\ Last(log).outcome = "repeat"
    => /\ ~InLoop /\ pc # "failed"
       /\ Last(log).api = "statuses"
            => all_posts = Last(log).have /\ statuses = all_posts
               /\ NoDuplicates(statuses)
       /\ Last(log).api # "statuses"
            => items = Last(log).have /\ NoDuplicates(items)

C3_Witness ==
    /\ log # <<>> /\ Last(log).outcome = "repeat"
    /\ Last(log).api = "statuses"
    /\ Last(log).batch = <<MaxN>>
    /\ statuses = <<MaxN>>

C3_WitnessAccounts ==
    /\ log # <<>> /\ Last(log).outcome = "repeat"
    /\ Last(log).api = "followers"
    /\ Last(log).batch = <<1, 2>>
    /\ followers_data = <<1, 2>>

\* the cursor and the items the collector in its loop would send and holds now
CursorNow == IF pc = "posts_loop" THEN max_id ELSE params
HaveNow == IF pc = "posts_loop" THEN all_posts ELSE items

\* C4: after a rate-limit signal with wait D either collector sleeps at least D and
\* then issues the request again with the same cursor, holding the items it held;
\* what it returns is what the run without the signal returns.
C4_RateLimitBackoff ==
    /\ \A k \in 1..Len(log) :
         log[k].outcome = "ratelimit"
         => IF k < Len(log)
            THEN /\ log[k + 1].api = log[k].api
                 /\ log[k + 1].cursor = log[k].cursor
                 /\ log[k + 1].have = log[k].have
                 /\ log[k + 1].waited >= log[k].d * TicksPerSecond
            ELSE /\ InLoop
                 /\ CursorNow = log[k].cursor
                 /\ HaveNow = log[k].have
                 /\ slept >= log[k].d * TicksPerSecond
    /\ PostsDone /\ OnlyPagesAndRateLimits
         => statuses = ExpectedPosts(src) /\ all_posts = statuses
    /\ AccountsDone /\ OnlyPagesAndRateLimits
         => items = ExpectedAccounts(src)

C4_Witness ==
    /\ PostsDone /\ OnlyPagesAndRateLimits
    /\ Len(log) = 4
    /\ log[2].outcome = "ratelimit" /\ log[2].d = MaxD
    /\ log[2].have = <<MaxN, MaxN - 1>>
    /\ log[3].cursor = log[2].cursor /\ log[3].outcome = "page"
    /\ statuses = Descending(MaxN, 1)

C4_WitnessAccounts ==
    /\ AccountsDone /\ OnlyPagesAndRateLimits
    /\ log # <<>> /\ log[1].api = "following"
    /\ Len(log) = 3
    /\ log[2].outcome = "ratelimit" /\ log[2].d = MaxD
    /\ log[2].have # <<>>
    /\ log[3].cursor = log[2].cursor /\ log[3].outcome = "page"
    /\ items = Ascending(1, src.n)

----------------------------------------------------------------------------
(* Properties of the journal *)

\* the post-processing loop (lines 545-611) has run to its end
PostsLoopDone == statuses # <<>> /\ pc = "accounts_begin"

\* no flush is pending and nothing was produced since the last flush of posts
PostsJustFlushed ==
    /\ statuses # <<>>
    /\ flushes # <<>> /\ Last(flushes).file = "posts"
    /\ \/ pc = "posts_process" /\ i > 0 /\ i % posts_batch_size = 0
       \/ pc = "accounts_begin"

\* C5: with N = k*B posts, posts.json absent at the start and no write failure,
\* posts.json holds after every flush exactly the records produced so far, in
\* production order, and at the end exactly the N records.
C5_EqualBatchesJournal ==
    statuses # <<>> /\ Len(statuses) % posts_batch_size = 0 /\ WriteFaults = 0
    => /\ PostsJustFlushed => posts_file = Json(status_list)
       /\ PostsLoopDone => posts_file = Json(statuses)

C5_Witness ==
    /\ PostsLoopDone /\ WriteFaults = 0
    /\ Len(statuses) = 3 * posts_batch_size
    /\ Len(flushes) = 3
    /\ posts_file = Json(Descending(3 * posts_batch_size, 1))

\* C6: with any number N >= 1 of posts, posts.json absent at the start and no write
\* failure, posts.json equals after the final flush the list of the N produced
\* records, each once and in order.
C6_AnyLengthJournal ==
    PostsLoopDone /\ WriteFaults = 0 => posts_file = Json(status_list)

\* all records of the list but its newest batch_size ones are in the file
Durable(list, file, batch_size) ==
    \A k \in 1..(Len(list) - batch_size) :
        file.state = "json" /\ list[k] \in Range(file.data)

C7_WitnessAccounts ==
    /\ WriteFaults = 0
    /\ pc = "accounts_process"
    /\ Len(followers) = accounts_batch_size + 1
    /\ followers_file = Json(SubSeq(followers, 1, accounts_batch_size))

FileOf(name) ==
    CASE name = "profile" -> profile_file
      [] name = "posts" -> posts_file
      [] name = "followers" -> followers_file
      [] OTHER -> following_file

\* C8: the records of the last successful flush of a file stay in it, in a readable
\* document, whatever write failure or termination comes later.
C8_FlushedRecordsKept ==
    \A k \in 1..Len(flushes) :
        /\ flushes[k].outcome = "ok"
        /\ \A m \in (k + 1)..Len(flushes) :
             flushes[m].file = flushes[k].file => flushes[m].outcome # "ok"
        => /\ FileOf(flushes[k].file).state = "json"
           /\ Range(flushes[k].data) \subseteq Range(FileOf(flushes[k].file).data)

\* C9: a failed flush of posts does not abort the job, and the next successful
\* flush of posts leaves in posts.json every record produced so far.
C9_FailedFlushHealed ==
    (\E k \in 1..Len(flushes) : flushes[k].file = "posts" /\ flushes[k].outcome # "ok")
    => /\ pc # "failed"
       /\ PostsJustFlushed /\ Last(flushes).outcome = "ok"
            => /\ posts_file.state = "json"
               /\ Range(status_list) \subseteq Range(posts_file.data)

\* C10: when a page request of get_all_posts fails with an error that is no
\* rate-limit signal after some pages were collected, get_all_posts returns the posts
\* of those pages and the job goes on with them.
C10_PostsErrorReturnsPartial ==
    /\ log # <<>> /\ Last(log).api = "statuses" /\ Last(log).outcome = "error"
    /\ Last(log).have # <<>>
    => /\ pc # "failed"
       /\ result # "none"
       /\ statuses = Last(log).have

----------------------------------------------------------------------------
(* The account-list collector on a failure that is not a rate limit *)

\* the list the account-list collector handed back to get_profile_info
ReturnedAccounts == IF ApiOf = "followers" THEN followers_data ELSE following_data

\* C11: when a page request of the followers/following collector fails with a
\* transport failure other than HTTP 429 (an error status or no response at all),
\* on the first request or right after a rate-limited one, the collection has
\* ended: it returned exactly the items of the earlier pages, nothing was raised
\* to the caller, and there was no further wait or retry.
C11_AccountsFailureReturnsPartial ==
    /\ log # <<>>
    /\ Last(log).api \in {"followers", "following"}
    /\ Last(log).outcome \in {"httperror", "connerror"}
    => /\ ~InLoop
       /\ pc # "failed" /\ result # "none"
       /\ slept = 0
       /\ ReturnedAccounts = Last(log).have

----------------------------------------------------------------------------
(* Properties of the post records *)

\* the raw post the k-th dictionary of all_posts was built from is new_posts[k], and
\* the k-th record of status_list was built from statuses[k]
Enriched == 1..Len(all_posts)
Recorded == 1..Len(status_list)

\* C12: a post with a non-null embedded reblog payload is classified reblog,
\* whether its body is empty or not and whatever the shape of its url.
C12_ReblogPayloadWins ==
    \A k \in Enriched :
        new_posts[k].reblog.kind = "payload" => all_posts[k].type = "reblog"

C12_Witness ==
    /\ Len(all_posts) = 1
    /\ new_posts[1].reblog.kind = "payload"
    /\ new_posts[1].content = <<>>
    /\ new_posts[1].url = UrlActivityLast
    /\ all_posts[1].type = "reblog"

\* the tokens after the last "/" of a url
LastSegment(url) ==
    LET slashes == {k \in 1..Len(url) : url[k] = "/"}
        last == CHOOSE k \in slashes : \A j \in slashes : j <= k
    IN  SubSeq(url, last + 1, Len(url))

\* C13: a post without reblog payload is classified favorite exactly when its body
\* is empty and the last segment of its url is the literal segment activity, and
\* original otherwise.
C13_FavoriteIffActivityLast ==
    \A k \in Enriched :
        new_posts[k].reblog.kind # "payload"
        => all_posts[k].type =
             IF new_posts[k].content = <<>>
                /\ LastSegment(new_posts[k].url) = <<"activity">>
             THEN "favorite" ELSE "original"

\* C14: in every produced record reblogged_from and favorited_status are never both
\* populated; a reblog has exactly reblogged_from, a favorite exactly
\* favorited_status, an original neither, whatever the lookups answered.
C14_CrossReferenceMatchesType ==
    \A k \in Recorded :
        LET type == statuses[k].type
            from == status_list[k].reblogged_from.set
            fav == status_list[k].favorited_status.set
        IN  /\ ~(from /\ fav)
            /\ type = "reblog" => from /\ ~fav
            /\ type = "favorite" => fav /\ ~from
            /\ type = "original" => ~from /\ ~fav

ActorCalls == {"status_reblogged_by", "status_favourited_by", "account_lookup"}

\* C15: for a post whose visibility is not public no reblogged-by call, no
\* favourited-by call and no account lookup is issued, and the rebloggers and
\* favouriters lists of its dictionary and of its record are empty.
C15_NonPublicNoActorCalls ==
    \A k \in Enriched :
        new_posts[k].visibility # "public"
        => /\ all_posts[k].rebloggers = <<>> /\ all_posts[k].favouriters = <<>>
           /\ \A c \in Range(calls) : c.post = new_posts[k].id => c.op \notin ActorCalls
           /\ k \in Recorded
                => /\ status_list[k].rebloggers = <<>>
                   /\ status_list[k].favouriters = <<>>

C15_Witness ==
    /\ Len(status_list) = 1 /\ Len(new_posts) = 1
    /\ new_posts[1].visibility = "unlisted"
    /\ all_posts[1].type = "favorite"
    /\ Call("status", 1) \in Range(calls)
    /\ Call("status_context", 1) \in Range(calls)

\* the downloads made for the post of id k
DownloadsOf(k) == {c \in Range(calls) : c.op = "download_media" /\ c.post = k}

\* C16: two reblog posts of different ids that wrap the same original get, for an
\* attachment of that original, the same local file name, and it is built from the
\* id of the original, not from the id of either reblog.
C16_SameFileForSameOriginal ==
    \A k1, k2 \in Recorded :
        /\ k1 # k2
        /\ new_posts[k1].reblog.kind = "payload"
        /\ new_posts[k2].reblog = new_posts[k1].reblog
        => \A c1 \in DownloadsOf(new_posts[k1].id), c2 \in DownloadsOf(new_posts[k2].id) :
              /\ c1.path.media = c2.path.media
              /\ \E m \in Range(Original(new_posts[k1].reblog.id).media_attachments) :
                    m.id = c1.path.media
              => /\ c1.path = c2.path
                 /\ c1.path.post = new_posts[k1].reblog.id
                 /\ c1.path.post \notin {new_posts[k1].id, new_posts[k2].id}

C16_Witness ==
    /\ Len(status_list) = 2
    /\ new_posts[1].reblog = [kind |-> "payload", id |-> 7]
    /\ new_posts[2].reblog = [kind |-> "payload", id |-> 7]
    /\ new_posts[1].media_attachments # <<>>
    /\ \E c1 \in DownloadsOf(1), c2 \in DownloadsOf(2) :
          c1.path = [post |-> 7, media |-> 5, ext |-> ".png"] /\ c2.path = c1.path

\* C18: every post record in posts.json has a type field, and its value is the
\* classification computed when the post was collected.
C18_WrittenRecordsCarryType ==
    posts_file.state = "json"
    => \A r \in Range(posts_file.data) :
          /\ "type" \in DOMAIN r
          /\ \E k \in 1..Len(statuses) :
                statuses[k].id = r.id /\ statuses[k].type = r.type

----------------------------------------------------------------------------
(* Properties of the whole job *)

\* C17: after a job that ran to completion without write failure the four files
\* exist, and a resource of which nothing was collected is an empty array in its
\* file.
C17_AllFilesAfterCompletion ==
    pc = "done" /\ WriteFaults = 0
    => /\ profile_file.state = "json"
       /\ posts_file.state = "json"
       /\ followers_file.state = "json"
       /\ following_file.state = "json"
       /\ statuses = <<>> => posts_file = Json(<<>>)
       /\ followers_data = <<>> => followers_file = Json(<<>>)
       /\ following_data = <<>> => following_file = Json(<<>>)

\* the stage the job is in: 1 Resolve and SnapshotProfile, 3 CollectPosts,
\* 4 EnrichAndPersistPosts, 5 CollectFollowers, 6 PersistFollowers,
\* 7 CollectFollowing, 8 PersistFollowing, 9 Summarize, 10 Terminal
Stage ==
    CASE pc \in {"parse", "resolve"} -> 1
      [] pc \in {"posts_begin", "posts_loop"} -> 3
      [] pc \in {"posts_process", "posts_flush"} -> 4
      [] pc \in {"accounts_begin", "accounts_loop"} ->
            IF type_list = "followers" THEN 5 ELSE 7
      [] pc \in {"accounts_process", "accounts_flush"} ->
            IF type_list = "followers" THEN 6 ELSE 8
      [] pc = "summarize" -> 9
      [] OTHER -> 10

StageOfApi(api) ==
    CASE api = "statuses" -> 3 [] api = "followers" -> 5 [] OTHER -> 7

StageOfFile(name) ==
    CASE name = "profile" -> 1 [] name = "posts" -> 4 [] name = "followers" -> 6
      [] OTHER -> 8

\* a step that issued calls for a post, and the operations it issued
CallsIssued == calls' # calls /\ Last(calls').post # 0
OpsIssued == {calls'[k].op : k \in (Len(calls) + 1)..Len(calls')}

\* the job never goes back to an earlier stage; every page request and every write
\* happens in the stage it belongs to; profile_info.json is written before the
\* first post request; posts.json is not written once a follower request was issued
StagesInOrder ==
    /\ [][Stage' >= Stage]_vars
    /\ [][log' # log /\ log' # <<>> => StageOfApi(Last(log').api) = Stage]_vars
    /\ [][flushes' # flushes => StageOfFile(Last(flushes').file) = Stage]_vars
    /\ [](log # <<>> => flushes # <<>> /\ flushes[1].file = "profile")
    /\ [][log # <<>> /\ log[1].api # "statuses" /\ flushes' # flushes
            => Last(flushes').file # "posts"]_vars

\* C19: the stages of a run happen only in the order Resolve, SnapshotProfile,
\* CollectPosts, EnrichAndPersistPosts, CollectFollowers, PersistFollowers,
\* CollectFollowing, PersistFollowing, Summarize, Terminal, no stage starting before
\* its predecessor ended: in particular every call that enriches a post is made in
\* EnrichAndPersistPosts, after CollectPosts has ended.
C19_StageOrder ==
    /\ StagesInOrder
    /\ [][CallsIssued => Stage = 4]_vars

\* C19 as the code has it: the order holds with the engagement lookups of a post
\* made inside CollectPosts, between the page requests, and only the reply context
\* and the writes made in EnrichAndPersistPosts.
C19_StageOrderLookupsInCollect ==
    /\ StagesInOrder
    /\ [][CallsIssued
            => /\ OpsIssued \subseteq {"status_reblogged_by", "status_favourited_by"}
                  => Stage = 3
               /\ OpsIssued = {"status_context"} => Stage = 4
               /\ Stage \in {3, 4}]_vars

C19_Witness ==
    /\ pc = "done"
    /\ \E k \in 1..Len(calls) : calls[k].op = "status_reblogged_by"
    /\ \E k \in 1..Len(calls) : calls[k].op = "status_context"
    /\ statuses # <<>> /\ followers_data # <<>> /\ following_data # <<>>
    /\ Len(flushes) = 4
    /\ [k \in 1..4 |-> flushes[k].file] = <<"profile", "posts", "followers", "following">>

\* an argument from which no non-empty username can be resolved: it is empty, it
\* starts with "@", or it holds more than one "@"
Unresolvable(arg) ==
    \/ arg = <<>>
    \/ arg[1] = "@"
    \/ Cardinality({k \in 1..Len(arg) : arg[k] = "@"}) > 1

\* C20: for an argument from which no non-empty username can be resolved the job
\* fails before it starts: once the argument is parsed the job has failed, no
\* output directory was made and no network call was issued.
C20_MalformedArgFailsFast ==
    Unresolvable(profile_arg) /\ pc # "parse"
    => /\ pc = "failed" /\ result = "none"
       /\ ~output_dir.made
       /\ calls = <<>>

----------------------------------------------------------------------------
(* Properties of the rate-limit check *)

\* C21: for every (remaining, limit, reset, now), limit = 0 included, the check
\* returns an advisory exactly when remaining and limit are both known,
\* remaining / limit is below 0.10 and reset is later than now; in every other case
\* it returns nothing, and it never raises.
C21_AdvisoryExactlyWhenLow ==
    pc # "monitor"
    => /\ pc = "monitored"
       /\ rate_limit_msg =
            IF /\ ratelimit.remaining # None /\ ratelimit.limit # None
               /\ ratelimit.limit > 0
               /\ 10 * ratelimit.remaining < ratelimit.limit
               /\ ratelimit.reset > Clock
            THEN "advisory" ELSE "none"

\* the clock when the k-th request of the log was issued
ClockAt(k) == SumWaited(SubSeq(log, 1, k))

\* the request an answered request with unseen items is followed by, if any
FollowsPage(e, next) ==
    IF e.api = "statuses"
    THEN /\ next.cursor = Last(e.batch)
         /\ next.have = e.have \o NewItems(e.batch, e.have)
    ELSE /\ next.cursor = e.cursor + src.p
         /\ next.have = e.have \o NewItems(e.batch, e.have)

\* C22: in both collectors every page request, one re-issued after a rate-limit
\* wait included, comes right after one rate-limit check, and whether that check
\* gave an advisory or nothing changes neither the requests that follow nor the
\* collected result.
C22_CheckBeforeEveryRequest ==
    /\ [](\A k \in 1..Len(log) :
            /\ log[k].advisory \in {"advisory", "none"}
            /\ log[k].advisory =
                 monitor_rate_limit(ratelimit.remaining, ratelimit.limit,
                                    ratelimit.reset, ClockAt(k)))
    /\ [][InLoop /\ Monitor \in {"advisory", "none"}
            => /\ Len(log') = Len(log) + 1
               /\ SubSeq(log', 1, Len(log)) = log
               /\ rate_limit_msg' = Last(log').advisory]_vars
    /\ [](\A k \in 1..(Len(log) - 1) :
            /\ log[k].outcome = "ratelimit"
                 => log[k + 1].cursor = log[k].cursor /\ log[k + 1].have = log[k].have
            /\ log[k].outcome = "page" => FollowsPage(log[k], log[k + 1]))
    /\ [](PostsDone /\ OnlyPagesAndRateLimits => statuses = ExpectedPosts(src))
    /\ [](AccountsDone /\ OnlyPagesAndRateLimits => items = ExpectedAccounts(src))

C22_Witness ==
    /\ PostsDone /\ OnlyPagesAndRateLimits
    /\ ratelimit = Exhausted
    /\ Len(log) = 4
    /\ log[1].advisory = "advisory"
    /\ log[2].outcome = "ratelimit"
    /\ log[3].cursor = log[2].cursor /\ log[3].advisory = "none"
    /\ statuses = Descending(2, 1)

----------------------------------------------------------------------------
(* Properties of the posts cursor *)

MinOf(S) == CHOOSE x \in S : \A y \in S : x <= y

\* the requests of get_all_posts that were answered by a non-empty page and
\* followed by another request
PagesFollowed ==
    {k \in 1..(Len(log) - 1) :
        log[k].api = "statuses" /\ log[k].outcome = "page" /\ log[k].batch # <<>>}

\* C23: after each non-empty page the cursor sent with the next request is the
\* minimum id of that page, whatever the order of the items in the page, and it is
\* strictly below the cursor the page was asked with.
C23_CursorIsMinimum ==
    \A k \in PagesFollowed :
        /\ log[k + 1].cursor = MinOf(Range(log[k].batch))
        /\ log[k].cursor # 0 => log[k + 1].cursor < log[k].cursor

----------------------------------------------------------------------------
(* Properties of the failures met while one post is enriched *)

\* the number of calls of an operation made for the post of id k
CallCount(op, k) ==
    Cardinality({n \in 1..Len(calls) : calls[n].op = op /\ calls[n].post = k})

\* One record per post, with the fallbacks, no call repeated. The placeholder is the
\* content a favorite gets when its original status cannot be fetched.
Isolated(placeholder) ==
    /\ Len(all_posts) <= Len(new_posts)
    /\ Len(status_list) <= Len(statuses)
    /\ pc # "enrich" => Len(statuses) = Len(new_posts)
    /\ pc = "accounts_begin" => Len(status_list) = Len(new_posts)
    /\ \A k \in Enriched :
         LET post == new_posts[k]
             d == all_posts[k]
         IN  /\ d.id = post.id
             \* every listed account has its record, full or partial, and one lookup
             /\ \A a \in Range(d.rebloggers) \cup Range(d.favouriters) :
                   a.detail \in {"full", "basic"}
             /\ CallCount("account_lookup", post.id)
                  = Len(d.rebloggers) + Len(d.favouriters)
             /\ CallCount("status_reblogged_by", post.id) <= 1
             /\ CallCount("status_favourited_by", post.id) <= 1
             \* a favorite: one fetch of the original, its content or the placeholder
             /\ CallCount("status", post.id) = IF d.type = "favorite" THEN 1 ELSE 0
             /\ d.type = "favorite"
                  => IF d.favorited_status.set
                     THEN d.content = clean_content(<<"<p>", "f", "</p>">>)
                     ELSE d.content = placeholder
    /\ \A k \in Recorded :
         LET status == statuses[k]
             r == status_list[k]
         IN  /\ r.id = status.id /\ r.id = new_posts[k].id
             /\ r.content = status.content
             /\ r.rebloggers = status.rebloggers /\ r.favouriters = status.favouriters
             \* replies: the context or the empty list, one call
             /\ r.replies \in {<<>>, <<"reply">>}
             /\ CallCount("status_context", r.id) = 1
             \* media: one download each, a local path or none
             /\ Len(r.media_attachments) = Len(MediaToFetch(status))
             /\ CallCount("download_media", r.id) = Len(r.media_attachments)
             /\ \A n \in 1..Len(r.media_attachments) :
                   /\ r.media_attachments[n].id = MediaToFetch(status)[n].id
                   /\ r.media_attachments[n].local_path
                        \in {NoPath, SavePath(status, MediaToFetch(status)[n])}

\* C24: whichever enrichment calls fail for a post, exactly one record is produced
\* for it with the defined fallback (partial actor record, placeholder content of
\* text "<unavailable>", empty reply list, media without local path), the failed
\* call is not retried, and there are as many records as collected posts.
C24_PerItemIsolation == Isolated([text |-> <<"<unavailable>">>])

\* C24 with the placeholder of the code: the same, the placeholder content being the
\* one of line 448, of text "Action non disponible".
C24_PerItemIsolationAsCoded == Isolated(Unavailable)

\* two posts; for the first, a public favorite with an attachment, the lookup of
\* its reblogger, the fetch of its original, the download and the context all failed
C24_Witness ==
    /\ pc = "accounts_begin"
    /\ Len(new_posts) = 2 /\ Len(status_list) = 2
    /\ statuses[1].type = "favorite"
    /\ statuses[1].content = Unavailable
    /\ \E a \in Range(status_list[1].rebloggers) : a.detail = "basic"
    /\ status_list[1].favouriters = <<>>
    /\ status_list[1].replies = <<>>
    /\ Len(status_list[1].media_attachments) = 1
    /\ status_list[1].media_attachments[1].local_path = NoPath
    /\ status_list[2].id = 2

----------------------------------------------------------------------------
(* Properties of the files of the earlier stages *)

WritesOf(name) == {k \in 1..Len(flushes) : flushes[k].file = name}

\* C25: profile_info.json is written exactly once and no later step changes it;
\* posts.json does not change once the stage of the posts is left; followers.json
\* does not change during the stage of the following; and this whether the later
\* stages succeed, degrade or abort the job.
C25_EarlierWritesUntouched ==
    /\ [](Cardinality(WritesOf("profile")) <= 1)
    /\ [](Stage \in 3..9 => WritesOf("profile") = {1})
    /\ [][pc \notin {"parse", "resolve"} => profile_file' = profile_file]_vars
    /\ [][Stage >= 5 => posts_file' = posts_file]_vars
    /\ [][Stage >= 7 => followers_file' = followers_file]_vars
    /\ [][Stage >= 5 => WritesOf("posts")' = WritesOf("posts")]_vars
    /\ [][Stage >= 7 => WritesOf("followers")' = WritesOf("followers")]_vars

\* the job ended after the write of following.json failed; the three earlier files
\* are as their stages left them
C25_Witness ==
    /\ pc = "done"
    /\ Len(flushes) = 4
    /\ flushes[4].file = "following" /\ flushes[4].outcome = "partial"
    /\ following_file.state = "corrupt"
    /\ profile_file = Json(<<"profile">>)
    /\ posts_file = Json(statuses) /\ statuses # <<>>
    /\ followers_file = Json(followers_data) /\ followers_data # <<>>

----------------------------------------------------------------------------
(* Properties of the collected lists under pages that hold an id twice *)

IsPrefix(s, t) == Len(s) <= Len(t) /\ SubSeq(t, 1, Len(s)) = s

\* C26: after any sequence of pages, overlapping pages and a page that holds the
\* same id twice included, the collected list of either collector never holds two
\* items of the same id, and a later page neither removes nor reorders the items
\* already collected.
C26_NeverTwoOfOneId ==
    /\ [](NoDuplicates(all_posts) /\ NoDuplicates(items))
    /\ [][IsPrefix(all_posts, all_posts') /\ IsPrefix(items, items')]_vars

----------------------------------------------------------------------------
(* Properties of a second run over the files of a first *)

\* the second run has ended, and no write failed in either run
RerunDone == PostsLoopDone /\ previous.state = "json" /\ WriteFaults = 0

\* C27: after the job was run again for the same unchanged profile over the
\* posts.json of an earlier run, posts.json holds each post id exactly once: it has
\* the content the single run left.
C27_RerunIdempotent ==
    RerunDone
    => /\ posts_file = previous
       /\ NoDuplicates(posts_file.data)
       /\ Range(posts_file.data) = Range(statuses)

====
